---------------------------- MODULE Spec2Model ----------------------------
(***************************************************************************)
(* A model of the atlas-qdpx annotation pipeline:                          *)
(*   - merge_citations  (src/atlas_qdpx/transformations.py)                *)
(*   - group_overlaps   (src/atlas_qdpx/transformations.py)                *)
(*   - parse_qdpx       (src/functions/qdpx.py, src/functions/paragraphs.py)*)
(* Each operation has its own specification (SpecMerge, SpecGroup,         *)
(* SpecParse); the variables of the other operations stay at their idle    *)
(* values.                                                                 *)
(***************************************************************************)
EXTENDS Integers, Sequences, FiniteSets, TLC

VARIABLES
    \* ---- merge_citations ----
    heap,              \* the record objects: a reference is an index into heap
    input,             \* the caller's list (references), argument `citations`
    merge_key,         \* argument `merge_key`
    citations,         \* the local name `citations` after line 21
    citation_map,      \* the dict of line 22, in insertion order
    mi,                \* position of the loop of line 24
    merged_citations,  \* the returned list
    mpc,               \* "call" | "loop" | "done"
    second,            \* TRUE once the result has been passed in again
    arg0,              \* history: the argument's records, by value, at the call
    prev_result,       \* history: the previous call's result, by value
    \* ---- group_overlaps ----
    gheap,             \* the record objects: a reference is an index into gheap
    g_input,           \* the caller's list (references), argument `annotations`
    output,            \* argument `output`
    annotations,       \* the local name `annotations` after line 95
    groups,            \* `groups` of line 97
    current_group,     \* `current_group` of line 98
    current_end,       \* `current_end`: <<>> is None, <<n>> the number n
    current_doc_id,    \* `current_doc_id`: <<>> is None, <<d>> the id d
    gi,                \* position of the loop of line 103
    g_flat,            \* the flat list of line 134 ("numbered")
    gpc,               \* "call" | "loop" | "done" | "error"
    g_second,          \* the call is the caller's second one
    g_prev,            \* history: the result of the caller's first call
    \* ---- parse_qdpx ----
    manifest,          \* the archive: its documents and their selections
    standardizer,      \* argument `standardizer` ("none" is None)
    documents,         \* `documents` of parse_qdpx
    di,                \* position of the running loop over the documents
    all_annotations,   \* the returned list of records
    std_log,           \* history: the calls made to the standardizer
    ppc,               \* "read" | "preprocess" | "paragraphs" | "sort" |
                       \* "extract" | "done" | "error"
    \* ---- read_qdpx.extract_tags ----
    codebook,          \* the Code elements of the codebook, in document order
    tags,              \* the dict `tags`: GUID -> name
    ti,                \* position of the loop of line 158
    tpc,               \* "loop" | "done"
    \* ---- make_paragraphs / assign_paragraphs ----
    par_text,          \* argument `text`
    span,              \* argument `annotation`: its offsets
    par_list,          \* the list returned by make_paragraphs
    par_ids,           \* the pair returned by assign_paragraphs
    parpc              \* "call" | "made" | "assigned"

mergeVars == <<heap, input, merge_key, citations, citation_map, mi,
               merged_citations, mpc, second, arg0, prev_result>>

groupVars == <<gheap, g_input, output, annotations, groups, current_group,
               current_end, current_doc_id, gi, g_flat, gpc, g_second, g_prev>>

parseVars == <<manifest, standardizer, documents, di, all_annotations,
               std_log, ppc>>

tagVars == <<codebook, tags, ti, tpc>>

paraVars == <<par_text, span, par_list, par_ids, parpc>>

vars == <<mergeVars, groupVars, parseVars, tagVars, paraVars>>

\* ------------------------------------------------------------------------
\* Generic helpers
\* ------------------------------------------------------------------------
Range(s) == {s[k] : k \in DOMAIN s}

\* All sequences over S of length at most n.
SeqsUpTo(S, n) == UNION {[1..k -> S] : k \in 0..n}

\* The orders in which the elements of a set can be listed.
Perms(S) == {p \in [1..Cardinality(S) -> S] : Range(p) = S}

\* Number of positions of s holding x.
Count(s, x) == Cardinality({k \in DOMAIN s : s[k] = x})

\* The other operations' variables while one operation is modelled.
MergeIdle ==
    /\ heap = <<>> /\ input = <<>> /\ merge_key = <<>> /\ citations = <<>>
    /\ citation_map = <<>> /\ mi = 1 /\ merged_citations = <<>>
    /\ mpc = "idle" /\ second = FALSE /\ arg0 = <<>> /\ prev_result = <<>>

GroupIdle ==
    /\ gheap = <<>> /\ g_input = <<>> /\ output = "grouped"
    /\ annotations = <<>> /\ groups = <<>> /\ current_group = <<>>
    /\ current_end = <<>> /\ current_doc_id = <<>> /\ gi = 1
    /\ g_flat = <<>> /\ gpc = "idle" /\ g_second = FALSE /\ g_prev = <<>>

ParseIdle ==
    /\ manifest = <<>> /\ standardizer = "none" /\ documents = <<>>
    /\ di = 1 /\ all_annotations = <<>> /\ std_log = <<>> /\ ppc = "idle"

TagsIdle ==
    /\ codebook = <<>> /\ tags = <<>> /\ ti = 1 /\ tpc = "idle"

ParaIdle ==
    /\ par_text = <<>> /\ span = <<>> /\ par_list = <<>> /\ par_ids = <<>>
    /\ parpc = "idle"

\* ------------------------------------------------------------------------
\* merge_citations: inputs
\* ------------------------------------------------------------------------
MaxCitations == 3

\* A coder value is a plain string or a list of strings (isinstance check of
\* line 28); v holds the single name, or the list's elements.
StrVal(name) == [isList |-> FALSE, v |-> <<name>>]
ListVal(names) == [isList |-> TRUE, v |-> names]

CoderValues == {StrVal("al"), StrVal("b"), ListVal(<<"al", "b", "b">>)}

\* The characters of a coder name (iterating a Python str yields them).
Chars(name) ==
    CASE name = "al" -> <<"a", "l">>
      [] name = "b" -> <<"b">>

CitationPool ==
    [start : {0}, end : {11}, code : {"A", "B"}, file : {"f1", "f2"},
     coder : CoderValues]

MergeKeys == {<<"start", "end", "code">>, <<"start", "end">>}

\* ------------------------------------------------------------------------
\* merge_citations: helpers
\* ------------------------------------------------------------------------
\* copy.deepcopy(citations), line 21: fresh objects appended to the heap ...
DeepCopyHeap(h, refs) == h \o [k \in 1..Len(refs) |-> h[refs[k]]]

\* Faulty variant: no copy: the local list holds the caller's own objects.
AliasRefs(h, refs) == refs

\* ... and the list of the references to them.
DeepCopyRefs(h, refs) == [k \in 1..Len(refs) |-> Len(h) + k]

\* line 26: key = tuple(citation[k] for k in merge_key)
KeyOf(rec, K) == [j \in 1..Len(K) |-> rec[K[j]]]

\* lines 27-29: coder = citation['coder'], wrapped in a list unless a list.
CoderList(rec) == rec.coder.v

\* Faulty variant: the lookup never finds the key.
MapPosMiss(map, key) == 0

\* `key in citation_map` / citation_map[key]: position of key, 0 if absent.
MapPos(map, key) ==
    IF \E p \in DOMAIN map : map[p].key = key
    THEN CHOOSE p \in DOMAIN map : map[p].key = key
    ELSE 0

\* Faulty variant: the merged coders are dropped.
ExtendDropped(old, coder) == old

\* line 33: existing_citation['coder'] += coder
Extend(old, coder) == old \o coder

\* Faulty variant: a new key goes to the front of the dict.
MapInsertFront(map, key, ref) == <<[key |-> key, ref |-> ref]>> \o map

\* line 36: citation_map[key] = citation, for a key not yet in the dict.
MapInsert(map, key, ref) == Append(map, [key |-> key, ref |-> ref])

\* list(set(x)), line 38: the distinct elements of the iterable x (the
\* characters, when x is a str) in an order Python does not fix.
ListSetOrders(cv) ==
    IF cv.isList THEN Perms(Range(cv.v)) ELSE Perms(Range(Chars(cv.v[1])))

\* ------------------------------------------------------------------------
\* merge_citations: actions
\* ------------------------------------------------------------------------
InitMerge ==
    /\ \E recs \in SeqsUpTo(CitationPool, MaxCitations) :
          /\ heap = recs
          /\ input = [k \in 1..Len(recs) |-> k]
          /\ arg0 = recs
    /\ merge_key \in MergeKeys
    /\ citations = <<>>
    /\ citation_map = <<>>
    /\ mi = 1
    /\ merged_citations = <<>>
    /\ mpc = "call"
    /\ second = FALSE
    /\ prev_result = <<>>
    /\ GroupIdle
    /\ ParseIdle
    /\ TagsIdle
    /\ ParaIdle

\* lines 21-22
MergeCall ==
    /\ UNCHANGED <<groupVars, parseVars, tagVars, paraVars>>
    /\ mpc = "call"
    /\ heap' = DeepCopyHeap(heap, input)
    /\ citations' = DeepCopyRefs(heap, input)
    /\ citation_map' = <<>>
    /\ mi' = 1
    /\ mpc' = "loop"
    /\ UNCHANGED <<input, merge_key, merged_citations, second, arg0,
                   prev_result>>

\* one iteration of the loop of lines 24-38
MergeStep ==
    /\ UNCHANGED <<groupVars, parseVars, tagVars, paraVars>>
    /\ mpc = "loop"
    /\ mi <= Len(citations)
    /\ LET c == citations[mi]
           key == KeyOf(heap[c], merge_key)
           coder == CoderList(heap[c])
           pos == MapPos(citation_map, key)
           h1 == IF pos # 0
                 THEN LET e == citation_map[pos].ref
                      IN [heap EXCEPT
                            ![e].coder = ListVal(Extend(@.v, coder))]
                 ELSE [heap EXCEPT ![c].coder = ListVal(coder)]
       IN /\ citation_map' = IF pos # 0 THEN citation_map
                             ELSE MapInsert(citation_map, key, c)
          /\ \E order \in ListSetOrders(h1[c].coder) :
                heap' = [h1 EXCEPT ![c].coder = ListVal(order)]
    /\ mi' = mi + 1
    /\ UNCHANGED <<input, merge_key, citations, merged_citations, mpc, second,
                   arg0, prev_result>>

\* lines 40-42
MergeReturn ==
    /\ UNCHANGED <<groupVars, parseVars, tagVars, paraVars>>
    /\ mpc = "loop"
    /\ mi > Len(citations)
    /\ merged_citations' = [k \in 1..Len(citation_map) |-> citation_map[k].ref]
    /\ mpc' = "done"
    /\ UNCHANGED <<heap, input, merge_key, citations, citation_map, mi, second,
                   arg0, prev_result>>

\* The caller passes the returned list to merge_citations again, with the
\* same key fields.
MergeAgain ==
    /\ UNCHANGED <<groupVars, parseVars, tagVars, paraVars>>
    /\ mpc = "done"
    /\ ~second
    /\ input' = merged_citations
    /\ arg0' = [k \in 1..Len(merged_citations) |-> heap[merged_citations[k]]]
    /\ prev_result' = [k \in 1..Len(merged_citations) |-> heap[merged_citations[k]]]
    /\ second' = TRUE
    /\ mpc' = "call"
    /\ UNCHANGED <<heap, merge_key, citations, citation_map, mi,
                   merged_citations>>

NextMerge == MergeCall \/ MergeStep \/ MergeReturn \/ MergeAgain

SpecMerge == InitMerge /\ [][NextMerge]_vars

\* The returned records, by value.
Returned == [k \in 1..Len(merged_citations) |-> heap[merged_citations[k]]]


\* ------------------------------------------------------------------------
\* group_overlaps: inputs
\* ------------------------------------------------------------------------
MaxAnnotations == 3

\* Python's None, and a value that is not None.
None == <<>>
Some(x) == <<x>>

\* Records with the fields group_overlaps reads; group is None while the
\* record has no "group" key.
AnnotationPool ==
    {r \in [doc_id : {0, 1}, start : 0..2, end : 1..3, group : {None}] :
        r.start < r.end}
        \cup [doc_id : {0}, start : {1}, end : {1}, group : {None}]

Outputs == {"grouped", "numbered", "flat"}

\* ------------------------------------------------------------------------
\* group_overlaps: helpers
\* ------------------------------------------------------------------------
\* Faulty variant: only the doc_id is compared.
KeyLessDocOnly(a, b) == a.doc_id < b.doc_id

\* The sort key of line 95, and its order: (doc_id, start) tuples.
KeyLess(a, b) ==
    \/ a.doc_id < b.doc_id
    \/ a.doc_id = b.doc_id /\ a.start < b.start

\* Faulty variant: r is inserted before the elements with an equal key.
RECURSIVE InsertBeforeEqual(_, _, _)
InsertBeforeEqual(sorted, r, h) ==
    IF sorted = <<>> THEN <<r>>
    ELSE IF ~KeyLess(h[sorted[Len(sorted)]], h[r])
         THEN Append(InsertBeforeEqual(SubSeq(sorted, 1, Len(sorted) - 1), r, h),
                     sorted[Len(sorted)])
         ELSE Append(sorted, r)

\* Insert reference r behind every element whose key is not greater.
RECURSIVE InsertStable(_, _, _)
InsertStable(sorted, r, h) ==
    IF sorted = <<>> THEN <<r>>
    ELSE IF KeyLess(h[r], h[sorted[Len(sorted)]])
         THEN Append(InsertStable(SubSeq(sorted, 1, Len(sorted) - 1), r, h),
                     sorted[Len(sorted)])
         ELSE Append(sorted, r)

\* sorted(annotations, key=...), line 95: a new list, stable.
RECURSIVE SortedStable(_, _)
SortedStable(refs, h) ==
    IF refs = <<>> THEN <<>>
    ELSE InsertStable(SortedStable(SubSeq(refs, 1, Len(refs) - 1), h),
                      refs[Len(refs)], h)

\* Faulty variant: every output is accepted.
ValidOutputAny(o) == TRUE

\* line 91: output in ["grouped", "numbered"]
ValidOutput(o) == o \in {"grouped", "numbered"}

\* Faulty variant: the end of the record just added replaces the running maximum.
LastEnd(cur, end) == end

\* line 119: max(current_end, end)
RunningMax(cur, end) == IF cur >= end THEN cur ELSE end

\* Faulty variant: the group being built at the end of the loop is lost.
WithFinalDropped(gs, cur) == gs

\* lines 126-127: the final group is appended if it exists.
WithFinal(gs, cur) == IF cur # <<>> THEN Append(gs, cur) ELSE gs

\* line 134: [a for g in groups for a in g]
RECURSIVE Flatten(_)
Flatten(gs) == IF gs = <<>> THEN <<>> ELSE Head(gs) \o Flatten(Tail(gs))

\* Faulty variant: the groups are numbered from 1.
NumberedFromOne(h, gs) ==
    [r \in DOMAIN h |->
        IF \E g \in DOMAIN gs : r \in Range(gs[g])
        THEN [h[r] EXCEPT !.group =
                 Some(CHOOSE g \in DOMAIN gs : r \in Range(gs[g]))]
        ELSE h[r]]

\* lines 131-133: a["group"] = group_id for every record of every group.
Numbered(h, gs) ==
    [r \in DOMAIN h |->
        IF \E g \in DOMAIN gs : r \in Range(gs[g])
        THEN [h[r] EXCEPT !.group =
                 Some((CHOOSE g \in DOMAIN gs : r \in Range(gs[g])) - 1)]
        ELSE h[r]]

\* ------------------------------------------------------------------------
\* group_overlaps: actions
\* ------------------------------------------------------------------------
InitGroup ==
    /\ \E recs \in SeqsUpTo(AnnotationPool, MaxAnnotations) :
          /\ gheap = recs
          /\ g_input = [k \in 1..Len(recs) |-> k]
    /\ output \in Outputs
    /\ annotations = <<>>
    /\ groups = <<>>
    /\ current_group = <<>>
    /\ current_end = None
    /\ current_doc_id = None
    /\ gi = 1
    /\ g_flat = <<>>
    /\ gpc = "call"
    /\ g_second = FALSE
    /\ g_prev = <<>>
    /\ MergeIdle
    /\ ParseIdle
    /\ TagsIdle
    /\ ParaIdle

\* lines 91-93
GroupRaise ==
    /\ gpc = "call"
    /\ ~ValidOutput(output)
    /\ gpc' = "error"
    /\ UNCHANGED <<gheap, g_input, output, annotations, groups, current_group,
                   current_end, current_doc_id, gi, g_flat, g_second, g_prev>>
    /\ UNCHANGED <<mergeVars, parseVars, tagVars, paraVars>>

\* Faulty variant: the caller's list is sorted in place.
GroupCallInPlace ==
    /\ gpc = "call"
    /\ ValidOutput(output)
    /\ g_input' = SortedStable(g_input, gheap)
    /\ annotations' = SortedStable(g_input, gheap)
    /\ groups' = <<>>
    /\ current_group' = <<>>
    /\ current_end' = None
    /\ current_doc_id' = None
    /\ gi' = 1
    /\ gpc' = "loop"
    /\ UNCHANGED <<gheap, output, g_flat, g_second, g_prev>>
    /\ UNCHANGED <<mergeVars, parseVars, tagVars, paraVars>>

\* lines 95-101
GroupCall ==
    /\ gpc = "call"
    /\ ValidOutput(output)
    /\ annotations' = SortedStable(g_input, gheap)
    /\ groups' = <<>>
    /\ current_group' = <<>>
    /\ current_end' = None
    /\ current_doc_id' = None
    /\ gi' = 1
    /\ gpc' = "loop"
    /\ UNCHANGED <<gheap, g_input, output, g_flat, g_second, g_prev>>
    /\ UNCHANGED <<mergeVars, parseVars, tagVars, paraVars>>

\* one iteration of the loop of lines 103-123
GroupStep ==
    /\ gpc = "loop"
    /\ gi <= Len(annotations)
    /\ LET a == annotations[gi]
           start == gheap[a].start
           end == gheap[a].end
           doc_id == gheap[a].doc_id
       IN IF current_group = <<>> \/ Some(doc_id) # current_doc_id
          THEN /\ groups' = IF current_group # <<>>
                            THEN Append(groups, current_group)
                            ELSE groups
               /\ current_group' = <<a>>
               /\ current_end' = Some(end)
               /\ current_doc_id' = Some(doc_id)
          ELSE IF start <= current_end[1]
               THEN /\ current_group' = Append(current_group, a)
                    /\ current_end' = Some(RunningMax(current_end[1], end))
                    /\ UNCHANGED <<groups, current_doc_id>>
               ELSE /\ groups' = Append(groups, current_group)
                    /\ current_group' = <<a>>
                    /\ current_end' = Some(end)
                    /\ UNCHANGED current_doc_id
    /\ gi' = gi + 1
    /\ UNCHANGED <<gheap, g_input, output, annotations, g_flat, gpc, g_second,
                   g_prev>>
    /\ UNCHANGED <<mergeVars, parseVars, tagVars, paraVars>>

\* lines 126-136
GroupReturn ==
    /\ gpc = "loop"
    /\ gi > Len(annotations)
    /\ LET final == WithFinal(groups, current_group)
       IN /\ groups' = final
          /\ IF output = "numbered"
             THEN /\ gheap' = Numbered(gheap, final)
                  /\ g_flat' = Flatten(final)
             ELSE UNCHANGED <<gheap, g_flat>>
    /\ gpc' = "done"
    /\ UNCHANGED <<g_input, output, annotations, current_group, current_end,
                   current_doc_id, gi, g_second, g_prev>>
    /\ UNCHANGED <<mergeVars, parseVars, tagVars, paraVars>>

\* What the caller keeps of a call's result: the groups, the flat list and
\* the records as they were returned.
Result == [groups |-> groups, flat |-> g_flat, heap |-> gheap]

\* The caller removes the "group" key from every record of the "numbered"
\* result and calls group_overlaps(result, "numbered").
GroupAgainStripped ==
    /\ gpc = "done"
    /\ output = "numbered"
    /\ ~g_second
    /\ g_prev' = Result
    /\ gheap' = [r \in DOMAIN gheap |-> [gheap[r] EXCEPT !.group = None]]
    /\ g_input' = g_flat
    /\ g_flat' = <<>>
    /\ g_second' = TRUE
    /\ gpc' = "call"
    /\ UNCHANGED <<output, annotations, groups, current_group, current_end,
                   current_doc_id, gi>>
    /\ UNCHANGED <<mergeVars, parseVars, tagVars, paraVars>>

\* The caller calls group_overlaps(result, "numbered") on the "numbered"
\* result as it is: the records have a "group" key.
GroupAgainKept ==
    /\ gpc = "done"
    /\ output = "numbered"
    /\ ~g_second
    /\ g_prev' = Result
    /\ g_input' = g_flat
    /\ g_flat' = <<>>
    /\ gpc' = "call"
    /\ UNCHANGED <<gheap, output, annotations, groups, current_group,
                   current_end, current_doc_id, gi, g_second>>
    /\ UNCHANGED <<mergeVars, parseVars, tagVars, paraVars>>

\* The list with the records at positions i and j exchanged.
Exchanged(list, i, j) ==
    [k \in DOMAIN list |->
        IF k = i THEN list[j] ELSE IF k = j THEN list[i] ELSE list[k]]

\* The caller calls group_overlaps again with the same records, two of them
\* exchanged in the list (every other order of the list is reached by
\* repeating such exchanges).
GroupAgainReordered ==
    /\ gpc = "done"
    /\ output = "grouped"
    /\ ~g_second
    /\ \E i, j \in DOMAIN g_input :
          /\ i < j
          /\ g_input' = Exchanged(g_input, i, j)
    /\ g_prev' = Result
    /\ g_second' = TRUE
    /\ gpc' = "call"
    /\ UNCHANGED <<gheap, output, annotations, groups, current_group,
                   current_end, current_doc_id, gi, g_flat>>
    /\ UNCHANGED <<mergeVars, parseVars, tagVars, paraVars>>

NextGroup ==
    \/ GroupRaise \/ GroupCall \/ GroupStep \/ GroupReturn
    \/ GroupAgainStripped \/ GroupAgainKept \/ GroupAgainReordered

SpecGroup == InitGroup /\ [][NextGroup]_vars

\* ------------------------------------------------------------------------
\* group_overlaps: claims
\* ------------------------------------------------------------------------
\* The largest end among the first n records of a group.
MaxEnd(g, n) ==
    CHOOSE m \in {gheap[g[k]].end : k \in 1..n} :
        \A k \in 1..n : gheap[g[k]].end <= m

\* The position of a record in the caller's list.
InputPos(r) == CHOOSE k \in DOMAIN g_input : g_input[k] = r

\* The list is the stable sort of the caller's list by (doc_id, start): the
\* same references, keys never decreasing, equal keys in the caller's order.
IsStableSort(flat) ==
    /\ Len(flat) = Len(g_input)
    /\ Range(flat) = Range(g_input)
    /\ \A i, j \in DOMAIN flat :
          i < j => /\ ~KeyLess(gheap[flat[j]], gheap[flat[i]])
                   /\ (~KeyLess(gheap[flat[i]], gheap[flat[j]])
                          => InputPos(flat[i]) < InputPos(flat[j]))

\* C1: in "grouped" mode the groups, read in order, are the stable sort of
\* the records by (doc_id, start); a record opens a group exactly when it is
\* the first record, or its doc_id differs from the current group's, or its
\* start is greater than the largest end of all records already in the
\* current group; otherwise it joins the current group.
C1_GroupedByRunningMax ==
    (gpc = "done" /\ output = "grouped") =>
        /\ IsStableSort(Flatten(groups))
        /\ \A g \in DOMAIN groups :
              /\ groups[g] # <<>>
              /\ \A p \in 2..Len(groups[g]) :
                    /\ gheap[groups[g][p]].doc_id = gheap[groups[g][1]].doc_id
                    /\ gheap[groups[g][p]].start <= MaxEnd(groups[g], p - 1)
              /\ g > 1 =>
                    \/ gheap[groups[g][1]].doc_id
                           # gheap[groups[g - 1][1]].doc_id
                    \/ gheap[groups[g][1]].start
                           > MaxEnd(groups[g - 1], Len(groups[g - 1]))

\* Spans (0,3), (0,1), (2,3) of one document: the third starts behind the
\* end of the second and still joins the group.
C1_Witness ==
    /\ gpc = "done" /\ output = "grouped"
    /\ Len(groups) = 1
    /\ Len(groups[1]) = 3
    /\ gheap[groups[1][1]].end = 3
    /\ gheap[groups[1][2]].end = 1
    /\ gheap[groups[1][3]].start = 2


\* C16: a second "numbered" run on the first run's output, its group fields
\* removed, returns the records in the same order and gives every record
\* the group number it had.
C16_NumberedIdempotent ==
    (gpc = "done" /\ output = "numbered" /\ g_second) =>
        /\ g_flat = g_prev.flat
        /\ \A r \in DOMAIN gheap :
              /\ gheap[r].group # None
              /\ gheap[r].group = g_prev.heap[r].group

\* Three records given in an order the first run changed; two of them have
\* the same doc_id and start.
C16_Witness ==
    /\ gpc = "done" /\ output = "numbered" /\ g_second
    /\ Len(g_flat) = 3
    /\ g_flat # <<1, 2, 3>>
    /\ gheap[g_flat[1]].start = gheap[g_flat[2]].start
    /\ gheap[g_flat[1]].doc_id = gheap[g_flat[2]].doc_id
    /\ gheap[g_flat[3]].group = Some(1)

\* The (doc_id, start, end) triple of a record.
Triple(r) == <<gheap[r].doc_id, gheap[r].start, gheap[r].end>>

\* How many records of a group have the triple t.
TripleCount(g, t) == Cardinality({p \in DOMAIN g : Triple(g[p]) = t})

\* C17: a "grouped" run on the same records with two of them exchanged in
\* the input returns as many groups, the k-th with the same
\* (doc_id, start, end) triples as often and with the same (doc_id, start)
\* at every position; records with equal (doc_id, start) are in the order
\* of the input. Holding for every list and every exchange, the equalities
\* hold between the results of any two orders of the same records.
C17_OrderIndependent ==
    (gpc = "done" /\ output = "grouped" /\ g_second) =>
        /\ Len(groups) = Len(g_prev.groups)
        /\ \A k \in DOMAIN groups :
              /\ Len(groups[k]) = Len(g_prev.groups[k])
              /\ \A p \in DOMAIN groups[k] :
                    /\ TripleCount(groups[k], Triple(groups[k][p]))
                          = TripleCount(g_prev.groups[k], Triple(groups[k][p]))
                    /\ gheap[groups[k][p]].doc_id
                          = gheap[g_prev.groups[k][p]].doc_id
                    /\ gheap[groups[k][p]].start
                          = gheap[g_prev.groups[k][p]].start
        /\ IsStableSort(Flatten(groups))

\* Two records with the same doc_id and start and different ends, given in
\* both orders, and a third that only the longer of them reaches.
C17_Witness ==
    /\ gpc = "done" /\ output = "grouped" /\ g_second
    /\ Len(groups) = 1
    /\ Len(groups[1]) = 3
    /\ Triple(groups[1][1]) = <<0, 0, 1>>
    /\ Triple(groups[1][2]) = <<0, 0, 3>>
    /\ Triple(groups[1][3]) = <<0, 2, 3>>
    /\ g_prev.groups[1][1] = groups[1][2]

\* The groups are those of "grouped" mode: none is empty, a record behind
\* the first of its group has the group's doc_id and starts at or before
\* the largest end before it, and the first record of a later group has
\* another doc_id than the group before or starts behind its largest end.
IsGrouping(gs) ==
    \A g \in DOMAIN gs :
        /\ gs[g] # <<>>
        /\ \A p \in 2..Len(gs[g]) :
              /\ gheap[gs[g][p]].doc_id = gheap[gs[g][1]].doc_id
              /\ gheap[gs[g][p]].start <= MaxEnd(gs[g], p - 1)
        /\ g > 1 =>
              \/ gheap[gs[g][1]].doc_id # gheap[gs[g - 1][1]].doc_id
              \/ gheap[gs[g][1]].start > MaxEnd(gs[g - 1], Len(gs[g - 1]))

\* The group number of the k-th record of the flat list.
GroupNo(k) == gheap[g_flat[k]].group[1]

\* C18: "numbered" mode returns the records as one list in stable
\* (doc_id, start) order, the records of the g-th group of "grouped" mode
\* numbered g - 1; the numbers start at 0, never fall, rise by at most 1
\* from a record to the next, and go on rising at a change of document.
C18_NumberedMode ==
    (gpc = "done" /\ output = "numbered") =>
        /\ IsStableSort(g_flat)
        /\ g_flat = Flatten(groups)
        /\ IsGrouping(groups)
        /\ \A g \in DOMAIN groups :
              \A p \in DOMAIN groups[g] :
                  gheap[groups[g][p]].group = Some(g - 1)
        /\ g_flat # <<>> => GroupNo(1) = 0
        /\ \A k \in 2..Len(g_flat) :
              /\ GroupNo(k) \in {GroupNo(k - 1), GroupNo(k - 1) + 1}
              /\ gheap[g_flat[k]].doc_id # gheap[g_flat[k - 1]].doc_id
                    => GroupNo(k) = GroupNo(k - 1) + 1

\* Two groups in document 0 and a third in document 1, numbered 0, 1, 2.
C18_Witness ==
    /\ gpc = "done" /\ output = "numbered" /\ ~g_second
    /\ Len(g_flat) = 3
    /\ g_input = <<1, 2, 3>> /\ g_flat = <<3, 2, 1>>
    /\ gheap[3].doc_id = 0 /\ gheap[2].doc_id = 0 /\ gheap[1].doc_id = 1
    /\ gheap[3].group = Some(0)
    /\ gheap[2].group = Some(1)
    /\ gheap[1].group = Some(2)

\* C19: a call with another output than "grouped" or "numbered" ends in
\* the error before anything is sorted or grouped: no list, no groups and
\* no result exist, and no record has a group field.
C19_InvalidOutputRaises ==
    output \notin {"grouped", "numbered"} =>
        /\ gpc \in {"call", "error"}
        /\ annotations = <<>> /\ groups = <<>> /\ current_group = <<>>
        /\ g_flat = <<>>
        /\ \A r \in DOMAIN gheap : gheap[r].group = None

\* The error of a call with three records.
C19_Witness ==
    /\ gpc = "error"
    /\ output = "flat"
    /\ Len(g_input) = 3

\* The half-open ranges of two records share a character.
SharesCharacter(a, b) ==
    \E c \in 0..3 :
        /\ gheap[a].start <= c /\ c < gheap[a].end
        /\ gheap[b].start <= c /\ c < gheap[b].end

\* C20: every record behind the first of its group shares a character with
\* a record before it in the group, the ranges read as [start, end).
C20_JoinsOnlyOnOverlap ==
    (gpc = "done" /\ output = "grouped") =>
        \A g \in DOMAIN groups :
            \A p \in 2..Len(groups[g]) :
                \E q \in 1..(p - 1) :
                    SharesCharacter(groups[g][q], groups[g][p])

\* C23: in both modes no group is empty, the groups put one behind the
\* other hold every record of the caller's list exactly once, and the
\* records of a group have one doc_id; in "numbered" mode the flat list
\* returned is that concatenation.
C23_GroupsPartitionInput ==
    gpc = "done" =>
        /\ \A g \in DOMAIN groups :
              /\ groups[g] # <<>>
              /\ \A p, q \in DOMAIN groups[g] :
                    gheap[groups[g][p]].doc_id = gheap[groups[g][q]].doc_id
        /\ Len(Flatten(groups)) = Len(g_input)
        /\ \A k \in DOMAIN g_input :
              Count(Flatten(groups), g_input[k]) = 1
        /\ output = "numbered" => g_flat = Flatten(groups)

\* Three records of two documents given in another order than the sorted
\* one, in two groups.
C23_Witness ==
    /\ gpc = "done" /\ output = "grouped" /\ ~g_second
    /\ g_input = <<1, 2, 3>>
    /\ Len(groups) = 2
    /\ groups[1] = <<3, 1>>
    /\ groups[2] = <<2>>
    /\ gheap[2].doc_id = 1

\* A record without its group field.
NonGroup(rec) == [doc_id |-> rec.doc_id, start |-> rec.start, end |-> rec.end]

\* A step of a call keeps the caller's list and the record objects, changes
\* no field but group, in "grouped" mode no field at all, and the group
\* field only at the return of "numbered" mode, for every record of the
\* caller's list; what is returned holds the caller's record objects.
FrameStep ==
    gpc \in {"call", "loop"} =>
        /\ g_input' = g_input
        /\ DOMAIN gheap' = DOMAIN gheap
        /\ \A r \in DOMAIN gheap : NonGroup(gheap'[r]) = NonGroup(gheap[r])
        /\ output = "grouped" => gheap' = gheap
        /\ gpc' # "done" => gheap' = gheap
        /\ gpc' = "done" =>
              /\ Range(Flatten(groups')) = Range(g_input)
              /\ output = "numbered" =>
                    /\ Range(g_flat') = Range(g_input)
                    /\ \A k \in DOMAIN g_input :
                          gheap'[g_input[k]].group # None

\* C25: no step of a call changes the caller's list, makes or removes a
\* record object, or changes another field of a record than group; in
\* "grouped" mode no record changes at all; in "numbered" mode the records
\* of the caller's list gain the group field, or have it overwritten, at
\* the return, and the records returned are the caller's objects.
C25_GroupFrame == [][FrameStep]_vars

\* The return of a "numbered" call on records that already had a group
\* field, the caller's list not in sorted order before the first call.
C25_Witness ==
    /\ gpc = "done" /\ output = "numbered" /\ ~g_second
    /\ g_prev # <<>>
    /\ Len(g_input) = 3
    /\ g_input # <<1, 2, 3>>
    /\ g_flat = g_input
    /\ \A r \in DOMAIN gheap : g_prev.heap[r].group = gheap[r].group

\* ------------------------------------------------------------------------
\* parse_qdpx: inputs
\* ------------------------------------------------------------------------
MaxSelections == 3

\* The documents of the archive: name and text (a sequence of characters).
DocNames == <<"d0", "d1">>
DocTexts == << <<"a", "b", "\n", "c", "d">>, <<"a", "b", "c">> >>

\* The resolved codebook (tags of read_qdpx): GUID -> qualified name.
TagGuids == {"g1", "g2"}
Tags == [g \in TagGuids |-> IF g = "g1" THEN "A" ELSE "B"]

\* A PlainTextSelection: offsets and the target GUIDs of its CodeRefs.
\* "gX" is a GUID the codebook does not hold.
SelectionPool ==
    [start : {0, 3}, end : {4}, refs : {<<>>, <<"g1">>, <<"g1", "g2">>,
                                        <<"g1", "gX">>}]
        \cup [start : {0}, end : {7}, refs : {<<"g2">>}]

\* The standardizers passed in: None, the repository's SpacyStandardizer
\* (offsets kept), and implementations of the protocol that rewrite the
\* offsets or return fewer or more spans than they were given.
Standardizers == {"none", "spacy", "rewrite", "shorter", "longer"}

\* The selection lists of n documents holding at most s selections together.
RECURSIVE SelectionLists(_, _)
SelectionLists(n, s) ==
    IF n = 0 THEN {<<>>}
    ELSE UNION {{<<sels>> \o rest : rest \in SelectionLists(n - 1, s - Len(sels))} :
                  sels \in SeqsUpTo(SelectionPool, s)}

\* ------------------------------------------------------------------------
\* paragraphs.py
\* ------------------------------------------------------------------------
\* text.split("\n"), line 8
RECURSIVE Split(_)
Split(text) ==
    IF \A i \in DOMAIN text : text[i] # "\n" THEN <<text>>
    ELSE LET i == CHOOSE j \in DOMAIN text :
                      /\ text[j] = "\n"
                      /\ \A k \in 1..(j - 1) : text[k] # "\n"
         IN <<SubSeq(text, 1, i - 1)>> \o Split(SubSeq(text, i + 1, Len(text)))

\* Faulty variant: the removed newline is not counted.
RECURSIVE ParStartNoGap(_, _)
ParStartNoGap(pieces, idx) ==
    IF idx = 1 THEN 0
    ELSE ParStartNoGap(pieces, idx - 1) + Len(pieces[idx - 1])

\* lines 15-20: p["start"] of the idx-th piece (1-based here).
RECURSIVE ParStart(_, _)
ParStart(pieces, idx) ==
    IF idx = 1 THEN 0
    ELSE ParStart(pieces, idx - 1) + Len(pieces[idx - 1]) + 1

\* Faulty variant: a paragraph ends at its last character.
make_paragraphs_short(text) ==
    LET pieces == Split(text)
    IN [idx \in 1..Len(pieces) |->
          [id |-> idx,
           text |-> pieces[idx],
           length |-> Len(pieces[idx]),
           start |-> ParStart(pieces, idx),
           end |-> ParStart(pieces, idx) + Len(pieces[idx]) - 1]]

\* make_paragraphs, lines 4-23
make_paragraphs(text) ==
    LET pieces == Split(text)
    IN [idx \in 1..Len(pieces) |->
          [id |-> idx,
           text |-> pieces[idx],
           length |-> Len(pieces[idx]),
           start |-> ParStart(pieces, idx),
           end |-> ParStart(pieces, idx) + Len(pieces[idx])]]

\* Faulty variant: the range of a paragraph is range(start, end).
FirstParagraphExclusive(offset, paragraphs) ==
    LET hits == {k \in DOMAIN paragraphs :
                    /\ paragraphs[k].start <= offset
                    /\ offset < paragraphs[k].end}
    IN IF hits = {} THEN None
       ELSE Some(paragraphs[CHOOSE k \in hits : \A j \in hits : k <= j].id)

\* lines 30-34 and 35-39: the id of the first paragraph whose
\* range(start, end + 1) holds the offset, None if there is none.
FirstParagraph(offset, paragraphs) ==
    LET hits == {k \in DOMAIN paragraphs :
                    /\ paragraphs[k].start <= offset
                    /\ offset < paragraphs[k].end + 1}
    IN IF hits = {} THEN None
       ELSE Some(paragraphs[CHOOSE k \in hits : \A j \in hits : k <= j].id)

\* assign_paragraphs, lines 26-40
assign_paragraphs(annotation, paragraphs) ==
    <<FirstParagraph(annotation.start, paragraphs),
      FirstParagraph(annotation.end, paragraphs)>>

\* ------------------------------------------------------------------------
\* qdpx.py: helpers
\* ------------------------------------------------------------------------
\* document["text"][a:b] for offsets a, b >= 0 (a Python slice).
Slice(text, a, b) ==
    LET hi == IF b < Len(text) THEN b ELSE Len(text)
    IN IF a >= hi THEN <<>> ELSE SubSeq(text, a + 1, hi)

\* parse_annotation raises KeyError at line 216 for a GUID not in tags.
Unresolved(sel) == \E k \in DOMAIN sel.refs : sel.refs[k] \notin DOMAIN Tags

\* parse_annotation, lines 207-218, for a selection with references that all
\* resolve: (start, end, codes). sel is history: the selection's position
\* in the manifest's document.
parse_annotation(sel, pos) ==
    [start |-> sel.start, end |-> sel.end,
     codes |-> [k \in DOMAIN sel.refs |-> Tags[sel.refs[k]]],
     sel |-> pos]

\* Faulty variant: a selection without references yields a span without codes.
RECURSIVE ParseSelectionsKeepEmpty(_, _)
ParseSelectionsKeepEmpty(sels, n) ==
    IF n = 0 THEN <<>>
    ELSE Append(ParseSelectionsKeepEmpty(sels, n - 1),
                parse_annotation(sels[n], n))

\* parse_doc, lines 191-194: the results that are not None, in order.
RECURSIVE ParseSelections(_, _)
ParseSelections(sels, n) ==
    IF n = 0 THEN <<>>
    ELSE LET before == ParseSelections(sels, n - 1)
         IN IF Len(sels[n].refs) = 0 THEN before
            ELSE Append(before, parse_annotation(sels[n], n))

\* Faulty variant: a selection with a reference that does not resolve is
\* skipped.
parse_doc_skipping(doc) ==
    LET kept == SelectSeq(doc.selections, LAMBDA sel : ~Unresolved(sel))
    IN [failed |-> FALSE,
        annotations |-> ParseSelections(kept, Len(kept))]

\* parse_doc, lines 184-202: the KeyError of parse_annotation leaves the
\* loop of line 191 and parse_doc; otherwise the document's raw spans.
parse_doc(doc) ==
    IF \E k \in DOMAIN doc.selections : Unresolved(doc.selections[k])
    THEN [failed |-> TRUE, annotations |-> <<>>]
    ELSE [failed |-> FALSE,
          annotations |-> ParseSelections(doc.selections, Len(doc.selections))]

\* Faulty variant: the list is left in manifest order.
InsertUnsorted(sorted, a) == Append(sorted, a)

\* sorted(document["annotations"], key=lambda x: x[0]), lines 81-82 (stable).
RECURSIVE InsertByStart(_, _)
InsertByStart(sorted, a) ==
    IF sorted = <<>> THEN <<a>>
    ELSE IF a.start < sorted[Len(sorted)].start
         THEN Append(InsertByStart(SubSeq(sorted, 1, Len(sorted) - 1), a),
                     sorted[Len(sorted)])
         ELSE Append(sorted, a)

RECURSIVE SortedByStart(_)
SortedByStart(anns) ==
    IF anns = <<>> THEN <<>>
    ELSE InsertByStart(SortedByStart(SubSeq(anns, 1, Len(anns) - 1)),
                       anns[Len(anns)])

\* standardizer.standardize(annotations, document), lines 85-86, for the
\* standardizers of Standardizers.
Standardize(std, anns, document) ==
    CASE std = "spacy" -> anns
      [] std = "rewrite" ->
            [k \in DOMAIN anns |->
                [anns[k] EXCEPT !.start = 0, !.end = Len(document.text)]]
      [] std = "shorter" -> SubSeq(anns, 1, Len(anns) - 1)
      [] std = "longer" -> Append(anns, anns[Len(anns)])

\* lines 97-114: the records of one annotation, one per code. sel is history.
RecordsOf(idx, document, a) ==
    LET pars == assign_paragraphs(a, document.paragraphs)
    IN [t \in DOMAIN a.codes |->
          [doc_id |-> idx,
           citation |-> Slice(document.text, a.start, a.end),
           code |-> a.codes[t],
           start |-> a.start,
           end |-> a.end,
           start_atlas_ti |-> pars[1],
           end_atlas_ti |-> pars[2],
           file |-> document.name,
           sel |-> a.sel]]

\* lines 95-114 for one document.
RECURSIVE ExtractFrom(_, _, _)
ExtractFrom(idx, document, n) ==
    IF n = 0 THEN <<>>
    ELSE ExtractFrom(idx, document, n - 1)
            \o RecordsOf(idx, document, document.annotations[n])

\* ------------------------------------------------------------------------
\* parse_qdpx: actions
\* ------------------------------------------------------------------------
InitParse ==
    /\ \E sels \in SelectionLists(Len(DocNames), MaxSelections) :
          manifest = [d \in 1..Len(DocNames) |->
                        [name |-> DocNames[d], text |-> DocTexts[d],
                         selections |-> sels[d]]]
    /\ standardizer \in Standardizers
    /\ documents = <<>>
    /\ di = 1
    /\ all_annotations = <<>>
    /\ std_log = <<>>
    /\ ppc = "read"
    /\ MergeIdle
    /\ GroupIdle
    /\ TagsIdle
    /\ ParaIdle

\* read_qdpx: extract_docs, lines 168-170, one document (parse_doc).
ReadDoc ==
    /\ ppc = "read"
    /\ di <= Len(manifest)
    /\ LET doc == manifest[di]
           parsed == parse_doc(doc)
       IN IF parsed.failed
          THEN /\ documents' = <<>>
               /\ ppc' = "error"
               /\ UNCHANGED di
          ELSE /\ documents' =
                     Append(documents,
                            [name |-> doc.name, text |-> doc.text,
                             annotations |-> parsed.annotations,
                             paragraphs |-> <<>>])
               /\ di' = di + 1
               /\ UNCHANGED ppc
    /\ UNCHANGED <<manifest, standardizer, all_annotations, std_log>>
    /\ UNCHANGED <<mergeVars, groupVars, tagVars, paraVars>>

\* read_qdpx returns, line 233 / line 118.
ReadDone ==
    /\ ppc = "read"
    /\ di > Len(manifest)
    /\ ppc' = "preprocess"
    /\ UNCHANGED <<manifest, standardizer, documents, di, all_annotations,
                   std_log>>
    /\ UNCHANGED <<mergeVars, groupVars, tagVars, paraVars>>

\* Faulty variant: preprocess is not called.
PreprocessSkipped ==
    /\ ppc = "preprocess"
    /\ standardizer # "none"
    /\ ppc' = "paragraphs"
    /\ UNCHANGED <<manifest, standardizer, documents, di, all_annotations,
                   std_log>>
    /\ UNCHANGED <<mergeVars, groupVars, tagVars, paraVars>>

\* lines 120-129: documents = standardizer.preprocess(documents)
Preprocess ==
    /\ ppc = "preprocess"
    /\ standardizer # "none"
    /\ std_log' = Append(std_log, [op |-> "preprocess", doc |-> 0,
                                   given |-> documents, returned |-> <<>>])
    /\ ppc' = "paragraphs"
    /\ UNCHANGED <<manifest, standardizer, documents, di, all_annotations>>
    /\ UNCHANGED <<mergeVars, groupVars, tagVars, paraVars>>

\* lines 130-131
NoStandardizer ==
    /\ ppc = "preprocess"
    /\ standardizer = "none"
    /\ ppc' = "paragraphs"
    /\ UNCHANGED <<manifest, standardizer, documents, di, all_annotations,
                   std_log>>
    /\ UNCHANGED <<mergeVars, groupVars, tagVars, paraVars>>

\* add_paragraphs, lines 70-74 / line 133
AddParagraphs ==
    /\ ppc = "paragraphs"
    /\ documents' = [d \in DOMAIN documents |->
                       [documents[d] EXCEPT
                          !.paragraphs = make_paragraphs(documents[d].text)]]
    /\ di' = 1
    /\ ppc' = "sort"
    /\ UNCHANGED <<manifest, standardizer, all_annotations, std_log>>
    /\ UNCHANGED <<mergeVars, groupVars, tagVars, paraVars>>

\* sort_and_standardize, lines 79-87, one document.
SortAndStandardize ==
    /\ ppc = "sort"
    /\ di <= Len(documents)
    /\ LET document == documents[di]
           sorted == SortedByStart(document.annotations)
       IN IF Len(document.annotations) > 0
          THEN IF standardizer # "none"
               THEN LET out == Standardize(standardizer, sorted, document)
                    IN /\ documents' =
                             [documents EXCEPT ![di].annotations = out]
                       /\ std_log' =
                             Append(std_log,
                                    [op |-> "standardize", doc |-> di - 1,
                                     given |-> sorted, returned |-> out])
               ELSE /\ documents' =
                          [documents EXCEPT ![di].annotations = sorted]
                    /\ UNCHANGED std_log
          ELSE UNCHANGED <<documents, std_log>>
    /\ di' = di + 1
    /\ UNCHANGED <<manifest, standardizer, all_annotations, ppc>>
    /\ UNCHANGED <<mergeVars, groupVars, tagVars, paraVars>>

\* line 134 returns
SortDone ==
    /\ ppc = "sort"
    /\ di > Len(documents)
    /\ di' = 1
    /\ ppc' = "extract"
    /\ UNCHANGED <<manifest, standardizer, documents, all_annotations,
                   std_log>>
    /\ UNCHANGED <<mergeVars, groupVars, tagVars, paraVars>>

\* extract_annotations, lines 94-114, one document.
ExtractDoc ==
    /\ ppc = "extract"
    /\ di <= Len(documents)
    /\ all_annotations' =
          all_annotations
             \o ExtractFrom(di - 1, documents[di],
                            Len(documents[di].annotations))
    /\ di' = di + 1
    /\ UNCHANGED <<manifest, standardizer, documents, std_log, ppc>>
    /\ UNCHANGED <<mergeVars, groupVars, tagVars, paraVars>>

\* lines 116, 135-137
ParseReturn ==
    /\ ppc = "extract"
    /\ di > Len(documents)
    /\ ppc' = "done"
    /\ UNCHANGED <<manifest, standardizer, documents, di, all_annotations,
                   std_log>>
    /\ UNCHANGED <<mergeVars, groupVars, tagVars, paraVars>>

NextParse ==
    \/ ReadDoc \/ ReadDone \/ Preprocess \/ NoStandardizer \/ AddParagraphs
    \/ SortAndStandardize \/ SortDone \/ ExtractDoc \/ ParseReturn

SpecParse == InitParse /\ [][NextParse]_vars


\* ------------------------------------------------------------------------
\* read_qdpx.extract_tags: inputs
\* ------------------------------------------------------------------------
MaxCodes == 3

\* A name is the sequence of its characters.
NameRoot == <<"R", "o", "o", "t">>
NameTheme == <<"T", "h", "e", "m", "e", " ", "/", " ",
               "S", "u", "b", " ", "C", "o", "d", "e">>
NameShort == <<"a", "/", "b">>
NamePool == {NameRoot, NameTheme, NameShort}

\* The guid attribute of the k-th Code element.
GuidNames == <<"c1", "c2", "c3", "c4", "c5">>

\* The ancestors of the i-th element, given every element's parent (0: the
\* element is a child of the Codes node).
RECURSIVE Ancestors(_, _)
Ancestors(pv, i) ==
    IF pv[i] = 0 THEN {} ELSE {pv[i]} \cup Ancestors(pv, pv[i])

\* The parents of n nested Code elements listed in document order: an
\* element is a child of the Codes node, of the element before it, or of
\* one of that element's ancestors.
ParentVectors(n) ==
    {pv \in [1..n -> 0..(n - 1)] :
        \A i \in 1..n :
            /\ pv[i] < i
            /\ pv[i] = 0 \/ pv[i] = i - 1 \/ pv[i] \in Ancestors(pv, i - 1)}

\* ------------------------------------------------------------------------
\* read_qdpx.extract_tags: helpers
\* ------------------------------------------------------------------------
\* str.replace(old, new) for a one-character old; new is a string.
RECURSIVE Replace(_, _, _)
Replace(str, old, new) ==
    IF str = <<>> THEN <<>>
    ELSE (IF Head(str) = old THEN new ELSE <<Head(str)>>)
            \o Replace(Tail(str), old, new)

\* line 178: name.replace(" ", "").replace("/", "-")
Sanitize(name) == Replace(Replace(name, " ", <<>>), "/", <<"-">>)

\* Faulty variant: the elements are visited last to first.
IterReversed(cb) == [k \in DOMAIN cb |-> Len(cb) + 1 - k]

\* line 156: list(codebook.iter(tag=CODE_QUERY)) lists the Code elements in
\* document order; the positions visited, in order.
IterOrder(cb) == [k \in DOMAIN cb |-> k]

\* `guid in tags`
InTags(t, guid) == \E k \in DOMAIN t : t[k].guid = guid

\* tags[guid]
TagAt(t, guid) == t[CHOOSE k \in DOMAIN t : t[k].guid = guid].name

\* tags[guid] = name: the entry of guid is replaced, or added.
TagSet(t, guid, name) ==
    IF InTags(t, guid)
    THEN [k \in DOMAIN t |->
            IF t[k].guid = guid THEN [guid |-> guid, name |-> name] ELSE t[k]]
    ELSE Append(t, [guid |-> guid, name |-> name])

\* parse_entry, lines 174-182
parse_entry(cb, e, t) ==
    LET guid == cb[e].guid
        t1 == TagSet(t, guid, Sanitize(cb[e].name))
        parent == cb[e].parent
    IN IF parent # 0 /\ InTags(t1, cb[parent].guid)
       THEN TagSet(t1, guid,
                   TagAt(t1, cb[parent].guid) \o <<"/">> \o TagAt(t1, guid))
       ELSE t1

\* ------------------------------------------------------------------------
\* read_qdpx.extract_tags: actions
\* ------------------------------------------------------------------------
InitTags ==
    /\ \E n \in 0..MaxCodes :
          \E pv \in ParentVectors(n) :
             \E names \in [1..n -> NamePool] :
                codebook = [k \in 1..n |->
                              [guid |-> GuidNames[k], name |-> names[k],
                               parent |-> pv[k]]]
    /\ tags = <<>>
    /\ ti = 1
    /\ tpc = "loop"
    /\ MergeIdle
    /\ GroupIdle
    /\ ParseIdle
    /\ ParaIdle

\* one iteration of the loop of lines 158-159
TagsStep ==
    /\ tpc = "loop"
    /\ ti <= Len(codebook)
    /\ tags' = parse_entry(codebook, IterOrder(codebook)[ti], tags)
    /\ ti' = ti + 1
    /\ UNCHANGED <<codebook, tpc>>
    /\ UNCHANGED <<mergeVars, groupVars, parseVars, paraVars>>

\* line 161
TagsReturn ==
    /\ tpc = "loop"
    /\ ti > Len(codebook)
    /\ tpc' = "done"
    /\ UNCHANGED <<codebook, tags, ti>>
    /\ UNCHANGED <<mergeVars, groupVars, parseVars, paraVars>>

NextTags == TagsStep \/ TagsReturn

SpecTags == InitTags /\ [][NextTags]_vars

\* ------------------------------------------------------------------------
\* read_qdpx.extract_tags: claims
\* ------------------------------------------------------------------------
\* A name without its spaces and with "-" for every "/".
Sanitized(name) ==
    LET kept == SelectSeq(name, LAMBDA c : c # " ")
    IN [k \in DOMAIN kept |-> IF kept[k] = "/" THEN "-" ELSE kept[k]]

\* The path of the k-th element: the sanitized names from its outermost
\* ancestor down to itself, joined by "/".
RECURSIVE PathOf(_, _)
PathOf(cb, k) ==
    IF cb[k].parent = 0 THEN Sanitized(cb[k].name)
    ELSE PathOf(cb, cb[k].parent) \o <<"/">> \o Sanitized(cb[k].name)

\* C12: the qualified name of a nested code is its enclosing code's
\* qualified name, "/", and its own sanitized name; that of a top-level code
\* is its sanitized name; so a code carries the path of all its ancestors.
C12_CodePath ==
    tpc = "done" =>
        /\ Len(tags) = Len(codebook)
        /\ \A k \in DOMAIN codebook :
              /\ InTags(tags, codebook[k].guid)
              /\ TagAt(tags, codebook[k].guid) = PathOf(codebook, k)
              /\ codebook[k].parent # 0 =>
                    TagAt(tags, codebook[k].guid)
                       = TagAt(tags, codebook[codebook[k].parent].guid)
                            \o <<"/">> \o Sanitized(codebook[k].name)

\* "Theme / Sub Code" nested in "Root", itself nested in another code.
C12_Witness ==
    /\ tpc = "done"
    /\ Len(codebook) = 3
    /\ codebook[2].parent = 1 /\ codebook[3].parent = 2
    /\ codebook[2].name = NameRoot /\ codebook[3].name = NameTheme
    /\ codebook[1].name = NameShort
    /\ TagAt(tags, "c3") =
          <<"a", "-", "b", "/", "R", "o", "o", "t", "/",
            "T", "h", "e", "m", "e", "-", "S", "u", "b", "C", "o", "d", "e">>

\* ------------------------------------------------------------------------
\* make_paragraphs / assign_paragraphs: inputs and actions
\* ------------------------------------------------------------------------
MaxTextLen == 3

\* The characters of a text: a letter, the newline and the carriage return.
TextChars == {"a", "\n", "\r"}

\* The offsets of an annotation of a text: inside it, at its end, beyond it.
OffsetsOf(t) == 0..(Len(t) + 1)

InitPara ==
    /\ par_text \in SeqsUpTo(TextChars, MaxTextLen)
    /\ span \in [start : OffsetsOf(par_text), end : OffsetsOf(par_text)]
    /\ par_list = <<>>
    /\ par_ids = <<>>
    /\ parpc = "call"
    /\ MergeIdle
    /\ GroupIdle
    /\ ParseIdle
    /\ TagsIdle

\* paragraphs = make_paragraphs(text)
MakeParagraphs ==
    /\ parpc = "call"
    /\ par_list' = make_paragraphs(par_text)
    /\ parpc' = "made"
    /\ UNCHANGED <<par_text, span, par_ids>>
    /\ UNCHANGED <<mergeVars, groupVars, parseVars, tagVars>>

\* assign_paragraphs(annotation, paragraphs)
AssignParagraphs ==
    /\ parpc = "made"
    /\ par_ids' = assign_paragraphs(span, par_list)
    /\ parpc' = "assigned"
    /\ UNCHANGED <<par_text, span, par_list>>
    /\ UNCHANGED <<mergeVars, groupVars, parseVars, tagVars>>

NextPara == MakeParagraphs \/ AssignParagraphs

SpecPara == InitPara /\ [][NextPara]_vars

\* ------------------------------------------------------------------------
\* make_paragraphs: claims
\* ------------------------------------------------------------------------
\* The number of newlines of a text.
Newlines(t) == Cardinality({i \in DOMAIN t : t[i] = "\n"})

\* C15: make_paragraphs returns one paragraph per newline-separated piece
\* of the text, numbered 1..P; each holds the characters between its start
\* and its end, none of them a newline; the first starts at 0, each later
\* one at the end of the one before plus 1, and the last ends at the length
\* of the text.
C15_ParagraphsContiguous ==
    parpc \in {"made", "assigned"} =>
        LET P == Len(par_list)
        IN /\ P = 1 + Newlines(par_text)
           /\ par_list[1].start = 0
           /\ par_list[P].end = Len(par_text)
           /\ \A i \in 1..P :
                 LET p == par_list[i]
                 IN /\ p.id = i
                    /\ p.length = Len(p.text)
                    /\ p.end = p.start + Len(p.text)
                    /\ p.text = SubSeq(par_text, p.start + 1, p.end)
                    /\ \A k \in DOMAIN p.text : p.text[k] # "\n"
                    /\ i > 1 => p.start = par_list[i - 1].end + 1
                    /\ i < P => par_text[p.end + 1] = "\n"

\* "a\r\n": the carriage return stays in paragraph 1, and the empty
\* paragraph 2 ends at the length of the text.
C15_Witness ==
    /\ parpc = "made"
    /\ par_text = <<"a", "\r", "\n">>
    /\ Len(par_list) = 2
    /\ par_list[1].text = <<"a", "\r">> /\ par_list[1].end = 2
    /\ par_list[2].text = <<>>
    /\ par_list[2].start = 3 /\ par_list[2].end = 3

\* ------------------------------------------------------------------------
\* parse_qdpx: claims
\* ------------------------------------------------------------------------
\* The manifest's document and selection a record was made from.
DocOf(r) == manifest[r.doc_id + 1]
SelectionOf(r) == DocOf(r).selections[r.sel]

\* The paragraph ids of a selection's own offsets.
OriginalParagraphs(r) ==
    assign_paragraphs(SelectionOf(r), make_paragraphs(DocOf(r).text))

\* C8: when the standardizer has rewritten a span's offsets, the record's
\* paragraph ids are those of the selection's original offsets, and its
\* start, end and citation are the rewritten ones.
C8_ParagraphsFromOriginalSpan ==
    ppc = "done" =>
        \A k \in DOMAIN all_annotations :
            LET r == all_annotations[k]
            IN <<r.start, r.end>> # <<SelectionOf(r).start, SelectionOf(r).end>>
                  => /\ <<r.start_atlas_ti, r.end_atlas_ti>>
                           = OriginalParagraphs(r)
                     /\ r.citation = Slice(DocOf(r).text, r.start, r.end)

\* C9: a run in which standardize returned fewer or more spans than it was
\* given does not complete: it returns no records.
C9_CardinalityChangeFails ==
    \A k \in DOMAIN std_log :
        (/\ std_log[k].op = "standardize"
         /\ Len(std_log[k].returned) # Len(std_log[k].given))
            => ppc # "done"

\* The number of code references of the first n selections.
RECURSIVE RefCount(_, _)
RefCount(sels, n) ==
    IF n = 0 THEN 0 ELSE RefCount(sels, n - 1) + Len(sels[n].refs)

\* C10: the number of records of each document is the number of code
\* references of its selections, one record per selection and reference.
C10_Explosion ==
    ppc = "done" =>
        \A d \in DOMAIN manifest :
            /\ Cardinality({k \in DOMAIN all_annotations :
                               all_annotations[k].doc_id = d - 1})
                  = RefCount(manifest[d].selections,
                             Len(manifest[d].selections))
            /\ \A n \in DOMAIN manifest[d].selections :
                  Cardinality({k \in DOMAIN all_annotations :
                                  /\ all_annotations[k].doc_id = d - 1
                                  /\ all_annotations[k].sel = n})
                     = Len(manifest[d].selections[n].refs)

HasUnresolved ==
    \E d \in DOMAIN manifest :
        \E k \in DOMAIN manifest[d].selections :
            Unresolved(manifest[d].selections[k])

\* C13: an archive with a code reference that does not resolve is never
\* read to the end: the run stays in read_qdpx or has failed, holds no
\* records, and after the failure holds no documents either.
C13_UnresolvedGuidFails ==
    HasUnresolved =>
        /\ ppc \in {"read", "error"}
        /\ ppc = "read" => di <= Len(manifest)
        /\ ppc = "error" => documents = <<>>
        /\ all_annotations = <<>>

\* The failure in the second document, in a selection with one reference
\* that resolves and one that does not, after the first document was read.
C13_Witness ==
    /\ ppc = "error"
    /\ di = 2
    /\ Len(manifest[1].selections) = 1
    /\ manifest[1].selections[1].refs = <<"g1">>
    /\ Len(manifest[2].selections) = 2
    /\ manifest[2].selections[1].refs = <<"g2">>
    /\ manifest[2].selections[2].refs = <<"g1", "gX">>

\* The selections of a document that hold a code reference, as raw spans.
RECURSIVE Referenced(_, _)
Referenced(sels, n) ==
    IF n = 0 THEN <<>>
    ELSE Referenced(sels, n - 1)
            \o (IF sels[n].refs = <<>> THEN <<>>
                ELSE << [start |-> sels[n].start, end |-> sels[n].end,
                         codes |-> [k \in DOMAIN sels[n].refs |->
                                       Tags[sels[n].refs[k]]],
                         sel |-> n] >>)

\* C14: a document's raw spans are its selections with a code reference, in
\* the selections' order and with their offsets and codes; no record comes
\* from a selection without references; a run fails only for a reference
\* that does not resolve.
C14_EmptySelectionDropped ==
    /\ ppc = "error" => HasUnresolved
    /\ ppc \in {"read", "preprocess"} =>
          \A d \in DOMAIN documents :
              documents[d].annotations =
                  Referenced(manifest[d].selections, Len(manifest[d].selections))
    /\ \A k \in DOMAIN all_annotations :
          SelectionOf(all_annotations[k]).refs # <<>>

\* A completed run over a document with a selection without references
\* between two selections that have some.
C14_Witness ==
    /\ ppc = "done"
    /\ standardizer = "spacy"
    /\ Len(manifest[1].selections) = 3
    /\ manifest[1].selections[1].refs = <<"g1", "g2">>
    /\ manifest[1].selections[2].refs = <<>>
    /\ manifest[1].selections[3].refs = <<"g2">>
    /\ Len(all_annotations) = 3

\* The raw spans of the d-th document of the archive.
RawSpans(d) == Referenced(manifest[d].selections, Len(manifest[d].selections))

\* The list holds the raw spans of the d-th document in stable ascending
\* start order: the same spans, each once, ordered by start and, for equal
\* starts, by their position in the document.
IsSortedSpans(list, d) ==
    /\ Len(list) = Len(RawSpans(d))
    /\ Range(list) = Range(RawSpans(d))
    /\ \A i, j \in DOMAIN list :
          i < j => \/ list[i].start < list[j].start
                   \/ list[i].start = list[j].start /\ list[i].sel < list[j].sel

\* C21: with a standardizer, the first call is the one preprocess call, on
\* the whole document list as it was read, and it is made before the
\* paragraphs are added; every later call is a standardize call; these are
\* in ascending document order, one for each document that has a span, and
\* each is given its document's spans in stable ascending start order.
\* Without a standardizer no call is made and the documents hold their
\* spans sorted and otherwise unchanged.
C21_StandardizerProtocol ==
    /\ ppc \in {"read", "preprocess", "error"} => std_log = <<>>
    /\ standardizer = "none" =>
          /\ std_log = <<>>
          /\ ppc \in {"extract", "done"} =>
                \A d \in DOMAIN documents :
                    IsSortedSpans(documents[d].annotations, d)
    /\ (standardizer # "none"
           /\ ppc \in {"paragraphs", "sort", "extract", "done"}) =>
          /\ Len(std_log) >= 1
          /\ std_log[1].op = "preprocess"
          /\ Len(std_log[1].given) = Len(manifest)
          /\ \A d \in DOMAIN manifest :
                /\ std_log[1].given[d].name = manifest[d].name
                /\ std_log[1].given[d].annotations = RawSpans(d)
          /\ \A k \in 2..Len(std_log) :
                /\ std_log[k].op = "standardize"
                /\ RawSpans(std_log[k].doc + 1) # <<>>
                /\ IsSortedSpans(std_log[k].given, std_log[k].doc + 1)
                /\ k > 2 => std_log[k - 1].doc < std_log[k].doc
          /\ ppc \in {"extract", "done"} =>
                \A d \in DOMAIN manifest :
                    RawSpans(d) # <<>> =>
                        \E k \in 2..Len(std_log) : std_log[k].doc = d - 1

\* A completed run with a standardizer over a first document without spans
\* and a second one whose two spans are not in start order in the archive.
C21_Witness ==
    /\ ppc = "done"
    /\ standardizer = "spacy"
    /\ Len(manifest[1].selections) = 1
    /\ manifest[1].selections[1].refs = <<>>
    /\ Len(manifest[2].selections) = 2
    /\ manifest[2].selections[1].start = 3
    /\ manifest[2].selections[2].start = 0
    /\ Len(std_log) = 2
    /\ std_log[2].doc = 1
    /\ std_log[2].given[1].sel = 2

\* The paragraphs whose inclusive range [start, end] contains the offset c.
Containing(c, pars) ==
    {i \in DOMAIN pars : pars[i].start <= c /\ c <= pars[i].end}

\* The id of the first of them, None if there is none.
FirstContaining(c, pars) ==
    IF Containing(c, pars) = {} THEN None
    ELSE Some(pars[CHOOSE i \in Containing(c, pars) :
                      \A j \in Containing(c, pars) : i <= j].id)

\* C22: every span of every document has one record per code, with the
\* span's offsets; the record's start paragraph is the first paragraph of
\* the document that contains the start offset and its end paragraph the
\* first that contains the end offset, each on its own and each None when
\* no paragraph contains the offset.
C22_NullParagraphIds ==
    ppc = "done" =>
        /\ \A k \in DOMAIN all_annotations :
              LET r == all_annotations[k]
                  pars == documents[r.doc_id + 1].paragraphs
              IN /\ pars = make_paragraphs(manifest[r.doc_id + 1].text)
                 /\ r.start_atlas_ti = FirstContaining(r.start, pars)
                 /\ r.end_atlas_ti = FirstContaining(r.end, pars)
        /\ \A d \in DOMAIN documents :
              \A n \in DOMAIN documents[d].annotations :
                  LET a == documents[d].annotations[n]
                  IN \A t \in DOMAIN a.codes :
                        \E k \in DOMAIN all_annotations :
                            LET r == all_annotations[k]
                            IN /\ r.doc_id = d - 1
                               /\ r.start = a.start /\ r.end = a.end
                               /\ r.code = a.codes[t]
                               /\ r.sel = a.sel

\* A record of a span that starts in the first paragraph of "ab\ncd" and
\* ends beyond the text.
C22_Witness ==
    /\ ppc = "done"
    /\ standardizer = "none"
    /\ \E k \in DOMAIN all_annotations :
          /\ all_annotations[k].doc_id = 0
          /\ all_annotations[k].end = 7
          /\ all_annotations[k].start_atlas_ti = Some(1)
          /\ all_annotations[k].end_atlas_ti = None

\* C24: every offset from 0 to the length of the text is in the inclusive
\* range of exactly one paragraph and every other offset in none; for a
\* span with 0 <= start <= end <= length both paragraph ids are set and the
\* start paragraph is not behind the end paragraph.
C24_OffsetsInOneParagraph ==
    /\ parpc \in {"made", "assigned"} =>
          \A c \in (0 - 2)..(Len(par_text) + 2) :
              IF 0 <= c /\ c <= Len(par_text)
              THEN Cardinality(Containing(c, par_list)) = 1
              ELSE Containing(c, par_list) = {}
    /\ (parpc = "assigned" /\ span.start <= span.end
           /\ span.end <= Len(par_text)) =>
          /\ par_ids[1] # None
          /\ par_ids[2] # None
          /\ par_ids[1][1] <= par_ids[2][1]

\* "a\na" with the span from the newline's offset to the end of the text:
\* paragraph 1 to paragraph 2.
C24_Witness ==
    /\ parpc = "assigned"
    /\ par_text = <<"a", "\n", "a">>
    /\ span = [start |-> 1, end |-> 3]
    /\ par_ids = <<Some(1), Some(2)>>

\* ------------------------------------------------------------------------
\* merge_citations: claims
\* ------------------------------------------------------------------------
\* The key of a record under the call's key fields.
K(rec) == KeyOf(rec, merge_key)

\* Positions of the argument that hold the first record with their key.
FirstIdx == {j \in DOMAIN arg0 : \A i \in 1..(j - 1) : K(arg0[i]) # K(arg0[j])}

\* The fields of a record other than coder.
NonCoder(rec) == [start |-> rec.start, end |-> rec.end, code |-> rec.code,
                  file |-> rec.file]

\* C2: in every returned record the coder collection holds each coder name
\* at most once.
C2_CoderDeduplicated ==
    mpc = "done" =>
        \A k \in DOMAIN Returned :
            Cardinality(Range(Returned[k].coder.v)) = Len(Returned[k].coder.v)

\* C3: the names in a returned record's coder field are exactly the coder
\* values (the name, or each element of a list) of the input records with
\* the same key.
C3_CoderUnion ==
    mpc = "done" =>
        \A k \in DOMAIN Returned :
            Range(Returned[k].coder.v) =
                UNION {Range(arg0[j].coder.v) :
                         j \in {i \in DOMAIN arg0 : K(arg0[i]) = K(Returned[k])}}

C3_Witness ==
    /\ mpc = "done"
    /\ ~second
    /\ Len(Returned) = 2
    /\ Len(arg0) = 3
    /\ K(arg0[1]) = K(arg0[3])
    /\ ~arg0[1].coder.isList /\ arg0[3].coder.isList
    /\ Range(Returned[1].coder.v) = {"al", "b"}
    /\ Range(Returned[2].coder.v) = {"al"}

\* C4: one returned record per distinct key of the input, in the order in
\* which each key first occurs in the input.
C4_OnePerKeyInFirstOccurrenceOrder ==
    mpc = "done" =>
        /\ Len(Returned) = Cardinality(FirstIdx)
        /\ \A k \in DOMAIN Returned :
              \E j \in FirstIdx :
                 /\ Cardinality({i \in FirstIdx : i < j}) = k - 1
                 /\ K(Returned[k]) = K(arg0[j])

C4_Witness ==
    /\ mpc = "done"
    /\ Len(arg0) = 3
    /\ K(arg0[1]) # K(arg0[2])
    /\ K(arg0[3]) = K(arg0[1])
    /\ Len(Returned) = 2

\* C5: merging the result again with the same key fields returns the same
\* records in the same order, the non-coder fields and the coder collection
\* (names and multiplicities) unchanged.
C5_MergeIdempotent ==
    (mpc = "done" /\ second) =>
        /\ Len(Returned) = Len(prev_result)
        /\ \A k \in DOMAIN Returned :
              /\ NonCoder(Returned[k]) = NonCoder(prev_result[k])
              /\ \A n \in {"al", "b"} :
                    Count(Returned[k].coder.v, n)
                        = Count(prev_result[k].coder.v, n)

\* C6: the caller's list and records are as they were at the call, and no
\* returned record is one of the caller's objects.
C6_InputNotMutated ==
    /\ Len(input) = Len(arg0)
    /\ \A k \in DOMAIN input : heap[input[k]] = arg0[k]
    /\ mpc = "done" => Range(merged_citations) \cap Range(input) = {}

C6_Witness ==
    /\ mpc = "done"
    /\ Len(input) = 2
    /\ Len(Returned) = 1
    /\ ~arg0[1].coder.isList
    /\ Returned[1].coder.isList
    /\ Len(Returned[1].coder.v) = 2

\* C7: the fields other than coder of a returned record are those of the
\* first input record with its key.
C7_FirstOccurrenceFields ==
    mpc = "done" =>
        \A k \in DOMAIN Returned :
            \E j \in FirstIdx :
               /\ K(arg0[j]) = K(Returned[k])
               /\ NonCoder(Returned[k]) = NonCoder(arg0[j])

C7_Witness ==
    /\ mpc = "done"
    /\ Len(arg0) = 2
    /\ K(arg0[1]) = K(arg0[2])
    /\ arg0[1].file # arg0[2].file
    /\ Len(Returned) = 1
    /\ Returned[1].file = arg0[1].file

=============================================================================
